---- MODULE Spec2Model ----
(***************************************************************************)
(* Model of tools/generate_tests_from_json.py: the generator that turns    *)
(* the Corkami test specification into corkami_test_data.cc (embedded      *)
(* corpus files) and test_corkami_generated.cpp (doctest cases).           *)
(*                                                                         *)
(* Text is modelled as a sequence of characters (one-character strings;    *)
(* a non-ASCII code point is the token "U+XXXX").  A Python dict with      *)
(* optional keys is a record whose fields are <<>> (key absent) or <<v>>   *)
(* (key present with value v).                                             *)
(***************************************************************************)
EXTENDS Integers, Sequences, FiniteSets, TLC

VARIABLES
    pc,         \* position of main(): start, load, corpus, gen_data, ...
    error,      \* the exception / exit that ended the run ("" while running)
    spec_doc,   \* docs/corkami_test_spec.json as found on disk
    corpus,     \* corpus directory: filename -> [state, data]
    data_code,  \* <<>> or <<text>>: result of generate_data_file
    test_code,  \* <<>> or <<text>>: result of generate_tests
    data_out,  \* <<>> or <<text>>: corkami_test_data.cc as written by this run
    test_out,  \* <<>> or <<text>>: test_corkami_generated.cpp as written by this run
    warnings,   \* the "Warning: File not found" lines printed, in order
    arg,        \* argument of the function under check (function-level specifications)
    ret         \* <<>> before the call, <<result>> after it

vars == <<pc, error, spec_doc, corpus, data_code, test_code, data_out, test_out,
          warnings, arg, ret>>

mainVars == <<pc, error, spec_doc, corpus, data_code, test_code, data_out, test_out,
              warnings>>

----------------------------------------------------------------------------
(* Bounds of the model *)

MaxNameLen == 3       \* longest filename given to sanitize_name on its own
MaxDataLen == 25      \* longest file embedded by embed_binary_file on its own
MaxEntries == 2       \* most entries of spec['test_files'] in a run of main()
MaxTestEntries == 2   \* most entries given to generate_tests on its own

(* Program constants *)

RowWidth == 12        \* bytes per line of the emitted array

----------------------------------------------------------------------------
(* Characters: str.isalnum, str.isdigit, str.lower, and code-point order *)

AsciiDigits == {"0", "1", "2", "3", "4", "5", "6", "7", "8", "9"}
AsciiLower  == {"a", "b", "c", "d", "e", "f", "x", "y"}
AsciiUpper  == {"A", "B"}
\* U+00E9 e-acute, U+00C9 E-acute (letters), U+0663 ARABIC-INDIC DIGIT THREE
NonAsciiLetters == {"U+00E9", "U+00C9"}
NonAsciiDigits  == {"U+0663"}

\* Code-point order of the modelled characters (for sorted()).
CharTable == <<"\t", "\n", " ", ",", "-", ".", "/",
               "0", "1", "2", "3", "4", "5", "6", "7", "8", "9",
               "A", "B", "_", "a", "b", "c", "d", "e", "f", "x", "y",
               "U+00C9", "U+00E9", "U+0663">>

CharCode(c) == CHOOSE i \in 1..Len(CharTable) : CharTable[i] = c

isdigit(c) == c \in AsciiDigits \cup NonAsciiDigits

isalnum(c) == c \in AsciiDigits \cup AsciiLower \cup AsciiUpper
                    \cup NonAsciiLetters \cup NonAsciiDigits

lower(c) == CASE c = "A" -> "a"
              [] c = "B" -> "b"
              [] c = "U+00C9" -> "U+00E9"
              [] OTHER -> c

\* a < b as Python compares str: code point by code point, a prefix first.
RECURSIVE StrLess(_, _)
StrLess(a, b) ==
    IF a = <<>> THEN b # <<>>
    ELSE IF b = <<>> THEN FALSE
    ELSE IF a[1] # b[1] THEN CharCode(a[1]) < CharCode(b[1])
    ELSE StrLess(Tail(a), Tail(b))

\* sorted(S) for a set of strings.
RECURSIVE sorted(_)
sorted(S) ==
    IF S = {} THEN <<>>
    ELSE LET m == CHOOSE x \in S : \A y \in S \ {x} : StrLess(x, y)
         IN  <<m>> \o sorted(S \ {m})

SeqsUpTo(S, n) == UNION {[1..k -> S] : k \in 0..n}

Map(F(_), s) == [i \in 1..Len(s) |-> F(s[i])]

----------------------------------------------------------------------------
(* sanitize_name *)

\* The path components pathlib keeps: split on "/", drop "" and ".".
RECURSIVE SplitPath(_, _)
SplitPath(s, cur) ==
    LET keep == IF cur = <<>> \/ cur = <<".">> THEN <<>> ELSE <<cur>>
    IN  IF s = <<>> THEN keep
        ELSE IF s[1] = "/" THEN keep \o SplitPath(Tail(s), <<>>)
        ELSE SplitPath(Tail(s), Append(cur, s[1]))

\* Path(filename).name: the last component, '' when there is none.
PathName(filename) ==
    LET parts == SplitPath(filename, <<>>)
    IN  IF parts = <<>> THEN <<>> ELSE parts[Len(parts)]

\* str.rfind('.') as a 1-based position, 0 when there is no dot.
RFindDot(name) ==
    LET dots == {i \in 1..Len(name) : name[i] = "."}
    IN  IF dots = {} THEN 0 ELSE CHOOSE i \in dots : \A j \in dots : j <= i

\* Path(filename).stem: the name up to its last dot, unless that dot is the
\* first or the last character.
PathStem(filename) ==
    LET name == PathName(filename)
        i    == RFindDot(name)
    IN  IF 1 < i /\ i < Len(name) THEN SubSeq(name, 1, i - 1) ELSE name

\* name = ''.join(c if c.isalnum() else '_' for c in name)
ReplaceChar(c) == IF isalnum(c) THEN c ELSE "_"

ReplaceSpecial(name) == Map(ReplaceChar, name)

\* name[0] on an empty string raises IndexError.
SanitizeRaises(filename) == PathStem(filename) = <<>>

Lowered(name) == Map(lower, name)

\* The value sanitize_name returns (when it does not raise).
sanitize_name(filename) ==
    LET name     == ReplaceSpecial(PathStem(filename))
        prefixed == IF isdigit(name[1]) THEN <<"_">> \o name ELSE name
    IN  Lowered(prefixed)

\* The outcome of a call: raised, or the value.
SanitizeCall(filename) ==
    IF SanitizeRaises(filename)
    THEN [raised |-> TRUE, value |-> <<>>]
    ELSE [raised |-> FALSE, value |-> sanitize_name(filename)]

----------------------------------------------------------------------------
(* Specification SpecSanitize: sanitize_name on every short filename *)

SanChars == {"a", "B", "7", ".", "-", " ", "/", "U+00E9", "U+0663"}

InitIdle ==
    /\ pc = "idle" /\ error = ""
    /\ spec_doc = [status |-> "missing", corpus_exists |-> FALSE, test_files |-> <<>>]
    /\ corpus = <<>>
    /\ data_code = <<>> /\ test_code = <<>>
    /\ data_out = <<>> /\ test_out = <<>>
    /\ warnings = <<>>

InitSanitize ==
    /\ InitIdle
    /\ arg \in SeqsUpTo(SanChars, MaxNameLen)
    /\ ret = <<>>

CallSanitize ==
    /\ ret = <<>>
    /\ ret' = <<SanitizeCall(arg)>>
    /\ UNCHANGED <<arg, mainVars>>

\* A repeated call: the result must not depend on the call before.
RecallSanitize ==
    /\ ret # <<>>
    /\ ret' = <<SanitizeCall(arg)>>
    /\ UNCHANGED <<arg, mainVars>>

NextSanitize == CallSanitize \/ RecallSanitize

SpecSanitize == InitSanitize /\ [][NextSanitize]_vars

IdentChars == {"a", "b", "c", "d", "e", "f", "x", "y", "_"} \cup AsciiDigits

\* C7: every call of sanitize_name returns (does not raise) a non-empty string
\* of lower-case ASCII letters, ASCII digits and underscores that does not
\* start with a digit.
C7_SanitizeTotalIdentifierSafe ==
    ret # <<>> =>
        /\ ~ret[1].raised
        /\ ret[1].value # <<>>
        /\ \A i \in 1..Len(ret[1].value) : ret[1].value[i] \in IdentChars
        /\ ret[1].value[1] \notin AsciiDigits

----------------------------------------------------------------------------
(* embed_binary_file *)

Min(a, b) == IF a < b THEN a ELSE b

HexDigits == <<"0", "1", "2", "3", "4", "5", "6", "7", "8", "9",
               "a", "b", "c", "d", "e", "f">>

\* f'0x{b:02x}'
Format02x(b) == <<"0", "x", HexDigits[(b \div 16) + 1], HexDigits[(b % 16) + 1]>>

\* sep.join(parts)
RECURSIVE Join(_, _)
Join(sep, parts) ==
    IF parts = <<>> THEN <<>>
    ELSE IF Len(parts) = 1 THEN parts[1]
    ELSE parts[1] \o sep \o Join(sep, Tail(parts))

\* range(0, len(data), 12), as 1-based start positions in order.
RowStarts(data) ==
    [k \in 1..((Len(data) + RowWidth - 1) \div RowWidth) |-> (k - 1) * RowWidth + 1]

\* data[i:i+12] for the row starting at (1-based) position i.
\* (variant: a slice one byte short of the row step, data[i:i+11])
ChunkShort(data, i) == SubSeq(data, i, Min(i + RowWidth - 2, Len(data)))
Chunk(data, i) == SubSeq(data, i, Min(i + RowWidth - 1, Len(data)))

\* f'\t{hex_bytes},' with hex_bytes = ', '.join(f'0x{b:02x}' for b in chunk)
HexLine(chunk) == <<"\t">> \o Join(<<",", " ">>, Map(Format02x, chunk)) \o <<",">>

\* str.rstrip(','): drop every trailing comma.
RECURSIVE RStripComma(_)
RStripComma(line) ==
    IF line # <<>> /\ line[Len(line)] = ","
    THEN RStripComma(SubSeq(line, 1, Len(line) - 1))
    ELSE line

\* hex_lines, the trailing comma of the last line removed.
HexLines(data) ==
    LET starts == RowStarts(data)
        lines  == [k \in 1..Len(starts) |-> HexLine(Chunk(data, starts[k]))]
    IN  IF lines = <<>> THEN lines
        ELSE [lines EXCEPT ![Len(lines)] = RStripComma(lines[Len(lines)])]

\* hex_data = '\n'.join(hex_lines)
HexData(data) == Join(<<"\n">>, HexLines(data))

\* file_path.read_bytes() raises something the except clause does not catch.
EmbedRaises(file) == file.state \notin {"ok", "FileNotFoundError"}

\* The warning embed_binary_file prints, if any.
EmbedWarning(file, file_path) ==
    IF file.state = "FileNotFoundError" THEN <<file_path>> ELSE <<>>

\* The text embed_binary_file returns: '' (no block) or one declaration block:
\* the comment line, the length constant, the array with its dimension and body.
embed_binary_file(file, file_path, var_name) ==
    IF file.state = "FileNotFoundError" THEN <<>>
    ELSE LET size == Len(file.data)
         IN  <<[name      |-> PathName(file_path),
                var       |-> var_name,
                len_const |-> size,
                dim       |-> size,
                hex_data  |-> HexData(file.data)]>>

----------------------------------------------------------------------------
(* Specification SpecEmbed: embed_binary_file on files of every short length *)

Seeds == {0, 10, 200}
Strides == {0, 1, 37}

PatternData(n, seed, stride) == [i \in 1..n |-> (seed + (i - 1) * stride) % 256]

EmbedFiles ==
    {[state |-> "ok", data |-> PatternData(n, seed, stride)] :
        n \in 0..MaxDataLen, seed \in Seeds, stride \in Strides}
    \cup {[state |-> s, data |-> <<>>] : s \in {"FileNotFoundError", "PermissionError"}}

EmbedPath == <<"a", ".", "x">>

InitEmbed ==
    /\ InitIdle
    /\ arg \in EmbedFiles
    /\ ret = <<>>

EmbedCall(file) ==
    IF EmbedRaises(file)
    THEN [raised |-> TRUE, text |-> <<>>, warning |-> <<>>]
    ELSE [raised |-> FALSE,
          text |-> embed_binary_file(file, EmbedPath, sanitize_name(EmbedPath)),
          warning |-> EmbedWarning(file, EmbedPath)]

CallEmbed ==
    /\ ret = <<>>
    /\ ret' = <<EmbedCall(arg)>>
    /\ UNCHANGED <<arg, mainVars>>

RecallEmbed ==
    /\ ret # <<>>
    /\ ret' = <<EmbedCall(arg)>>
    /\ UNCHANGED <<arg, mainVars>>

NextEmbed == CallEmbed \/ RecallEmbed

SpecEmbed == InitEmbed /\ [][NextEmbed]_vars

\* Reading the emitted initializer list back, as a C++ compiler does: white
\* space (row breaks included) separates nothing, commas separate elements,
\* one trailing comma is allowed, and an element is 0x followed by two hex
\* digits.  An element that is anything else reads as -1.
IsSpace(c) == c \in {"\t", "\n", " "}

StripSpace(text) == SelectSeq(text, LAMBDA c : ~IsSpace(c))

\* text.split(','), a final empty piece dropped.
CommaPos(s) == {i \in 1..Len(s) : s[i] = ","}

NthComma(s, k) ==
    CHOOSE i \in CommaPos(s) : Cardinality({j \in CommaPos(s) : j <= i}) = k

SplitComma(s) ==
    LET n      == Cardinality(CommaPos(s))
        from(k) == IF k = 1 THEN 1 ELSE NthComma(s, k - 1) + 1
        to(k)   == IF k = n + 1 THEN Len(s) ELSE NthComma(s, k) - 1
        pieces == [k \in 1..(n + 1) |-> SubSeq(s, from(k), to(k))]
    IN  IF pieces[n + 1] = <<>> THEN SubSeq(pieces, 1, n) ELSE pieces

HexValue(c) ==
    IF \E i \in 1..16 : HexDigits[i] = c
    THEN (CHOOSE i \in 1..16 : HexDigits[i] = c) - 1
    ELSE -1

ElementValue(tok) ==
    IF /\ Len(tok) = 4 /\ tok[1] = "0" /\ tok[2] = "x"
       /\ HexValue(tok[3]) >= 0 /\ HexValue(tok[4]) >= 0
    THEN 16 * HexValue(tok[3]) + HexValue(tok[4])
    ELSE -1

ParseElements(hex_data) == Map(ElementValue, SplitComma(StripSpace(hex_data)))

\* C6: for a readable file with bytes B, the emitted length constant and the
\* array dimension both equal len(B), and the elements of the emitted array
\* literal, read in order across the row breaks, are exactly B.
C6_EmbedRoundTrip ==
    (ret # <<>> /\ arg.state = "ok") =>
        /\ ~ret[1].raised
        /\ Len(ret[1].text) = 1
        /\ ret[1].text[1].len_const = Len(arg.data)
        /\ ret[1].text[1].dim = Len(arg.data)
        /\ ParseElements(ret[1].text[1].hex_data) = arg.data

\* The round trip has been made for a file that ends exactly on a row
\* boundary and for one that runs one byte into a third row.
C6_Witness ==
    /\ ret # <<>> /\ arg.state = "ok"
    /\ Len(arg.data) = 2 * RowWidth + 1
    /\ arg.data[RowWidth] # arg.data[RowWidth + 1]
    /\ ParseElements(ret[1].text[1].hex_data) = arg.data

----------------------------------------------------------------------------
(* The directory-section synthesizers.  A generated test case is            *)
(* [binary_file, title, var, steps]: the file named in the TEST_CASE title, *)
(* the directory title, the identifier the load step references             *)
(* (corkami_data::<var> and corkami_data::<var>_len), and the steps of the  *)
(* case body in order.                                                      *)

\* dict.get(key, default) / key in dict, for an optional field.
Get(field, default) == IF field = <<>> THEN default ELSE field[1]
Has(field) == field # <<>>

St(step, name, n) == [step |-> step, name |-> name, n |-> n]

RECURSIVE Flatten(_)
Flatten(ss) == IF ss = <<>> THEN <<>> ELSE ss[1] \o Flatten(Tail(ss))

\* load_embedded(corkami_data::<var>, corkami_data::<var>_len);
\* REQUIRE_FALSE(data.empty()); pe_file::from_memory(data)
LoadStep == St("load_embedded", "", 0)

\* SUBCASE("<K> directory present") { CHECK(pe.has_data_directory(directory_entry::<K>)); }
PresentStep(K) == St("has_data_directory", K, 0)

\* if (!<view>) { MESSAGE("<file>: <K> not parsed"); return; }
NotParsedStep(message) == St("not_parsed", message, 0)

\* test_file['data_directories'].get(K, {}).get('present', False)
\* (variant: .get('present', True))
PresentDefaultTrue(test_file, K) ==
    /\ Has(test_file.data_directories[K])
    /\ Get(test_file.data_directories[K][1].present, TRUE)
Present(test_file, K) ==
    /\ Has(test_file.data_directories[K])
    /\ Get(test_file.data_directories[K][1].present, FALSE)

Case(test_file, title, steps) ==
    [binary_file |-> test_file.binary_file,
     title       |-> title,
     var         |-> sanitize_name(test_file.binary_file),
     steps       |-> steps]

\* The checks emitted for one function of a DLL: only when it has a name.
FunctionSteps(func) ==
    IF Has(func.name) /\ func.name[1] # ""
    THEN <<St("function_found_not_ordinal", func.name[1], 0)>>
    ELSE <<>>

\* SUBCASE("DLL: <name>"): the lookup with REQUIRE(dll != nullptr), the
\* function count, the named functions.
DllSteps(dll) ==
    <<St("dll_lookup", dll.name, 0)>>
    \o (IF Has(dll.function_count)
        THEN <<St("function_count", dll.name, dll.function_count[1])>> ELSE <<>>)
    \o (IF Has(dll.functions)
        THEN Flatten(Map(FunctionSteps, dll.functions[1])) ELSE <<>>)
    \o <<St("end_dll", dll.name, 0)>>

\* test_file['description'] on an entry without one raises KeyError.
ImportRaises(test_file) == ~Has(test_file.description)

generate_import_test(test_file) ==
    IF ~Present(test_file, "IMPORT") THEN <<>>
    ELSE LET import_spec == test_file.data_directories["IMPORT"][1]
         IN  <<Case(test_file, "Import Directory",
                <<LoadStep, PresentStep("IMPORT"), NotParsedStep("Import directory")>>
                \o (IF Has(import_spec.dll_count)
                    THEN <<St("dll_count", "", import_spec.dll_count[1])>> ELSE <<>>)
                \o (IF Has(import_spec.dlls)
                    THEN Flatten(Map(DllSteps, import_spec.dlls[1])) ELSE <<>>))>>

\* The opening of a TLS case: load, existence assertion, "not parsed" guard.
\* (variant: without the existence assertion)
TlsHeadNoPresent == <<LoadStep, NotParsedStep("TLS directory")>>
TlsHead == <<LoadStep, PresentStep("TLS"), NotParsedStep("TLS directory")>>

\* if 'callback_count' in tls_spec
\* (variant: if tls_spec.get('callback_count'), which drops a count of 0)
TlsCountStepsTruthy(tls_spec) ==
    IF Get(tls_spec.callback_count, 0) # 0
    THEN <<St("callback_count", "", tls_spec.callback_count[1])>> ELSE <<>>
TlsCountSteps(tls_spec) ==
    IF Has(tls_spec.callback_count)
    THEN <<St("callback_count", "", tls_spec.callback_count[1])>> ELSE <<>>

\* if tls_spec.get('has_callbacks', False), and the two address flags
TlsFlagSteps(tls_spec) ==
    (IF Get(tls_spec.has_callbacks, FALSE)
     THEN <<St("has_callbacks", "", 0)>> ELSE <<>>)
    \o (IF Get(tls_spec.address_of_index_nonzero, FALSE)
        THEN <<St("address_of_index_nonzero", "", 0)>> ELSE <<>>)
    \o (IF Get(tls_spec.address_of_callbacks_nonzero, FALSE)
        THEN <<St("address_of_callbacks_nonzero", "", 0)>> ELSE <<>>)

generate_tls_test(test_file) ==
    IF ~Present(test_file, "TLS") THEN <<>>
    ELSE LET tls_spec == test_file.data_directories["TLS"][1]
         IN  <<Case(test_file, "TLS Directory",
                    TlsHead \o TlsCountSteps(tls_spec) \o TlsFlagSteps(tls_spec))>>

\* for idx, entry in enumerate(debug_spec['entries']): idx counts from 0.
DebugEntrySteps(entries) ==
    Flatten([i \in 1..Len(entries) |->
        <<[step |-> "entry_type", name |-> Get(entries[i].type, "None"), n |-> i - 1]>>
        \o (IF Has(entries[i].size_of_data)
            THEN <<St("entry_size", "", i - 1)>> ELSE <<>>)])

generate_debug_test(test_file) ==
    IF ~Present(test_file, "DEBUG") THEN <<>>
    ELSE LET debug_spec == test_file.data_directories["DEBUG"][1]
         IN  <<Case(test_file, "Debug Directory",
                <<LoadStep, NotParsedStep("Debug directory")>>
                \o (IF Has(debug_spec.entry_count)
                    THEN <<St("entry_count", "", debug_spec.entry_count[1])>> ELSE <<>>)
                \o (IF Has(debug_spec.entries)
                    THEN DebugEntrySteps(debug_spec.entries[1]) ELSE <<>>))>>

CertificateSteps(certs) ==
    Flatten([i \in 1..Len(certs) |->
        (IF Get(certs[i].is_authenticode, FALSE)
         THEN <<St("is_authenticode", "", i - 1)>> ELSE <<>>)
        \o (IF Has(certs[i].data_size)
            THEN <<St("certificate_size", "", i - 1)>> ELSE <<>>)])

generate_security_test(test_file) ==
    IF ~Present(test_file, "SECURITY") THEN <<>>
    ELSE LET security_spec == test_file.data_directories["SECURITY"][1]
         IN  <<Case(test_file, "Security Directory",
                <<LoadStep, NotParsedStep("Security directory")>>
                \o (IF Has(security_spec.certificate_count)
                    THEN <<St("certificate_count", "", security_spec.certificate_count[1])>>
                    ELSE <<>>)
                \o (IF Has(security_spec.certificates)
                    THEN CertificateSteps(security_spec.certificates[1]) ELSE <<>>))>>

generate_com_descriptor_test(test_file) ==
    IF ~Present(test_file, "COM_DESCRIPTOR") THEN <<>>
    ELSE LET com_spec == test_file.data_directories["COM_DESCRIPTOR"][1]
         IN  <<Case(test_file, "COM Descriptor",
                <<LoadStep, NotParsedStep("COM descriptor")>>
                \o (IF Get(com_spec.is_valid, FALSE)
                    THEN <<St("is_valid", "", 0)>> ELSE <<>>)
                \o (IF Has(com_spec.runtime_version)
                    THEN <<St("runtime_version", com_spec.runtime_version[1], 0)>> ELSE <<>>)
                \o (IF Has(com_spec.major_version)
                    THEN <<St("major_version", "", com_spec.major_version[1])>> ELSE <<>>)
                \o (IF Get(com_spec.metadata_rva_nonzero, FALSE)
                    THEN <<St("metadata_rva_nonzero", "", 0)>> ELSE <<>>)
                \o (IF Get(com_spec.metadata_size_nonzero, FALSE)
                    THEN <<St("metadata_size_nonzero", "", 0)>> ELSE <<>>))>>

----------------------------------------------------------------------------
(* generate_file_header, generate_tests, generate_data_file *)

\* binary_files: the set of the entries' filenames.
BinaryFiles(test_files) == {test_files[i].binary_file : i \in 1..Len(test_files)}

\* The extern declarations of the header: for each filename in sorted order,
\* extern size_t <var>_len; and extern unsigned char <var>[];
ForwardDecls(test_files) ==
    LET files == sorted(BinaryFiles(test_files))
    IN  Flatten([i \in 1..Len(files) |->
            <<[decl |-> "len", var |-> sanitize_name(files[i])],
              [decl |-> "array", var |-> sanitize_name(files[i])]>>])

generate_file_header(test_files) == ForwardDecls(test_files)

\* The five synthesizers on one entry, in the order generate_tests calls them.
EntryCases(test_file) ==
    generate_import_test(test_file)
    \o generate_tls_test(test_file)
    \o generate_debug_test(test_file)
    \o generate_security_test(test_file)
    \o generate_com_descriptor_test(test_file)

\* The exception generate_tests ends with, "" when it returns: IndexError from
\* sanitize_name (first reached in the header), KeyError from
\* test_file['description'] in generate_import_test.
GenerateTestsError(test_files) ==
    IF \E i \in 1..Len(test_files) : SanitizeRaises(test_files[i].binary_file)
    THEN "IndexError"
    ELSE IF \E i \in 1..Len(test_files) : ImportRaises(test_files[i])
    THEN "KeyError"
    ELSE ""

generate_tests(test_files) ==
    [forward_decls |-> generate_file_header(test_files),
     cases         |-> Flatten(Map(EntryCases, test_files))]

\* The exception generate_data_file ends with, "" when it returns.
GenerateDataError(test_files, files) ==
    LET names == sorted(BinaryFiles(test_files))
        bad   == {i \in 1..Len(names) :
                    SanitizeRaises(names[i]) \/ EmbedRaises(files[names[i]])}
        first == CHOOSE i \in bad : \A j \in bad : i <= j
    IN  IF bad = {} THEN ""
        ELSE IF SanitizeRaises(names[first]) THEN "IndexError"
        ELSE files[names[first]].state

\* The filenames generate_data_file embeds, in order.
\* (variant: a list in specification order instead of the sorted set)
EmbedOrderNoDedup(test_files) == Map(LAMBDA e : e.binary_file, test_files)
EmbedOrder(test_files) == sorted(BinaryFiles(test_files))

generate_data_file(test_files, files) ==
    LET names == EmbedOrder(test_files)
    IN  [blocks |-> Flatten([i \in 1..Len(names) |->
            embed_binary_file(files[names[i]], names[i], sanitize_name(names[i]))])]

\* The warnings generate_data_file prints, in order.
DataWarnings(test_files, files) ==
    LET names == EmbedOrder(test_files)
    IN  Flatten([i \in 1..Len(names) |-> EmbedWarning(files[names[i]], names[i])])

----------------------------------------------------------------------------
(* Specification inputs: filenames and directory specifications *)

File1 == <<"a", ".", "x">>      \* sanitizes to a
File2 == <<"A", ".", "y">>      \* sanitizes to a as well
File3 == <<"b", "-", "1">>      \* sanitizes to b_1

\* The directory kinds: the key in data_directories, the TEST_CASE title, the
\* name in the "not parsed" message.
Kinds == {"IMPORT", "TLS", "DEBUG", "SECURITY", "COM_DESCRIPTOR"}

Title(K) == CASE K = "IMPORT" -> "Import Directory"
              [] K = "TLS" -> "TLS Directory"
              [] K = "DEBUG" -> "Debug Directory"
              [] K = "SECURITY" -> "Security Directory"
              [] K = "COM_DESCRIPTOR" -> "COM Descriptor"

Message(K) == CASE K = "IMPORT" -> "Import directory"
                [] K = "TLS" -> "TLS directory"
                [] K = "DEBUG" -> "Debug directory"
                [] K = "SECURITY" -> "Security directory"
                [] K = "COM_DESCRIPTOR" -> "COM descriptor"

OptBool == {<<>>, <<FALSE>>, <<TRUE>>}

ImportDir(present) ==
    [present |-> present, dll_count |-> <<2>>,
     dlls |-> << << [name |-> "KERNEL32.DLL", function_count |-> <<3>>,
                     functions |-> << << [name |-> <<"ExitProcess">>, is_ordinal |-> <<FALSE>>],
                                         [name |-> <<>>, is_ordinal |-> <<TRUE>>] >> >>] >> >>]

TlsDir(present) ==
    [present |-> present, callback_count |-> <<0>>, has_callbacks |-> <<FALSE>>,
     address_of_index_nonzero |-> <<>>, address_of_callbacks_nonzero |-> <<>>]

DebugDir(present) ==
    [present |-> present, entry_count |-> <<2>>,
     entries |-> << << [type |-> <<"CODEVIEW">>, size_of_data |-> <<28>>],
                       [type |-> <<>>, size_of_data |-> <<>>] >> >>]

SecurityDir(present) ==
    [present |-> present, certificate_count |-> <<1>>,
     certificates |-> << << [is_authenticode |-> <<TRUE>>, data_size |-> <<>>] >> >>]

ComDir(present) ==
    [present |-> present, is_valid |-> <<TRUE>>, runtime_version |-> <<"v4.0">>,
     major_version |-> <<2>>, metadata_rva_nonzero |-> <<TRUE>>,
     metadata_size_nonzero |-> <<FALSE>>]

\* How an entry states a directory: no key at all, a spec without 'present',
\* present false, present true.
Gates == {"absent", "nopresent", "false", "true"}

GatePresent(gate) == CASE gate = "nopresent" -> <<>>
                       [] gate = "false" -> <<FALSE>>
                       [] gate = "true" -> <<TRUE>>

KindDir(K, gate) ==
    IF gate = "absent" THEN <<>>
    ELSE CASE K = "IMPORT" -> <<ImportDir(GatePresent(gate))>>
           [] K = "TLS" -> <<TlsDir(GatePresent(gate))>>
           [] K = "DEBUG" -> <<DebugDir(GatePresent(gate))>>
           [] K = "SECURITY" -> <<SecurityDir(GatePresent(gate))>>
           [] K = "COM_DESCRIPTOR" -> <<ComDir(GatePresent(gate))>>

\* An entry: kind K0 stated by gate, every other kind by others.
Entry(file, description, K0, gate, others) ==
    [binary_file |-> file, description |-> description,
     data_directories |-> [K \in Kinds |-> KindDir(K, IF K = K0 THEN gate ELSE others)]]

----------------------------------------------------------------------------
(* Specification SpecTests: generate_tests on short specifications *)

TestEntries ==
    {Entry(File1, <<"d">>, K, g, o) : K \in Kinds, g \in Gates, o \in {"absent", "true"}}
    \cup {Entry(File3, <<"d">>, "TLS", "true", "true"),
          Entry(File3, <<"d">>, "TLS", "absent", "absent"),
          Entry(File3, <<>>, "TLS", "true", "absent")}

InitTests ==
    /\ InitIdle
    /\ arg \in SeqsUpTo(TestEntries, MaxTestEntries)
    /\ ret = <<>>

GenerateTestsCall(test_files) ==
    IF GenerateTestsError(test_files) # ""
    THEN [error |-> GenerateTestsError(test_files),
          text |-> [forward_decls |-> <<>>, cases |-> <<>>]]
    ELSE [error |-> "", text |-> generate_tests(test_files)]

CallGenerateTests ==
    /\ ret = <<>>
    /\ ret' = <<GenerateTestsCall(arg)>>
    /\ UNCHANGED <<arg, mainVars>>

RecallGenerateTests ==
    /\ ret # <<>>
    /\ ret' = <<GenerateTestsCall(arg)>>
    /\ UNCHANGED <<arg, mainVars>>

NextTests == CallGenerateTests \/ RecallGenerateTests

SpecTests == InitTests /\ [][NextTests]_vars

\* The entry states kind K with present = true.
PresentTrue(entry, K) ==
    /\ entry.data_directories[K] # <<>>
    /\ entry.data_directories[K][1].present = <<TRUE>>

TestsReturned == ret # <<>> /\ ret[1].error = ""

\* C5: a test case for (entry, K) is emitted exactly when the entry's
\* DirectorySpec for K has present = true: for every file and kind the number
\* of emitted cases equals the number of entries of that file stating the kind
\* present, and the total number of cases is the number of (entry, K) pairs
\* with present = true.
C5_CaseIffPresent ==
    TestsReturned =>
        LET cases == ret[1].text.cases
        IN  /\ \A f \in BinaryFiles(arg) : \A K \in Kinds :
                 Cardinality({j \in 1..Len(cases) :
                                cases[j].binary_file = f /\ cases[j].title = Title(K)})
                 = Cardinality({i \in 1..Len(arg) :
                                arg[i].binary_file = f /\ PresentTrue(arg[i], K)})
            /\ Len(cases) = Cardinality({p \in (1..Len(arg)) \X Kinds :
                                            PresentTrue(arg[p[1]], p[2])})

\* generate_tests has returned for a specification in which one kind is stated
\* absent, one without 'present', one with present false and one present true.
C5_Witness ==
    /\ TestsReturned
    /\ \E i \in 1..Len(arg) : \E K \in Kinds : arg[i].data_directories[K] = <<>>
    /\ \E i \in 1..Len(arg) : \E K \in Kinds :
            arg[i].data_directories[K] # <<>> /\ arg[i].data_directories[K][1].present = <<>>
    /\ \E i \in 1..Len(arg) : \E K \in Kinds :
            arg[i].data_directories[K] # <<>> /\ arg[i].data_directories[K][1].present = <<FALSE>>
    /\ Len(ret[1].text.cases) = 4

KindOfTitle(title) == CHOOSE K \in Kinds : Title(K) = title

FieldSteps == {"dll_count", "dll_lookup", "function_count", "function_found_not_ordinal",
               "end_dll", "callback_count", "has_callbacks", "address_of_index_nonzero",
               "address_of_callbacks_nonzero", "entry_count", "entry_type", "entry_size",
               "certificate_count", "is_authenticode", "certificate_size", "is_valid",
               "runtime_version", "major_version", "metadata_rva_nonzero",
               "metadata_size_nonzero"}

\* The case opens with the load step, the existence assertion for K and the
\* "not parsed" guard naming K, in this order, before any sub-assertion.
SharedShape(c, K) ==
    /\ Len(c.steps) >= 3
    /\ c.steps[1] = LoadStep
    /\ c.steps[2] = PresentStep(K)
    /\ c.steps[3] = NotParsedStep(Message(K))
    /\ \A i \in 4..Len(c.steps) : c.steps[i].step \in FieldSteps

\* The case opens with the load step and the "not parsed" guard naming K, and
\* holds no existence assertion.
ShapeWithoutExistence(c, K) ==
    /\ Len(c.steps) >= 2
    /\ c.steps[1] = LoadStep
    /\ c.steps[2] = NotParsedStep(Message(K))
    /\ \A i \in 3..Len(c.steps) : c.steps[i].step \in FieldSteps

\* C10 as stated: every emitted case, of every kind, has the shared shape.
C10_SharedShapeAllKinds ==
    TestsReturned =>
        \A j \in 1..Len(ret[1].text.cases) :
            SharedShape(ret[1].text.cases[j], KindOfTitle(ret[1].text.cases[j].title))

\* C10 amended: an Import or TLS case has the shared shape (load, existence
\* assertion, "not parsed" guard); a Debug, Security or COM case opens with
\* the load step and the "not parsed" guard and holds no existence assertion.
C10_SharedShapeImportTls ==
    TestsReturned =>
        \A j \in 1..Len(ret[1].text.cases) :
            LET c == ret[1].text.cases[j]
                K == KindOfTitle(c.title)
            IN  IF K \in {"IMPORT", "TLS"}
                THEN SharedShape(c, K)
                ELSE ShapeWithoutExistence(c, K)

\* Cases of all five kinds have been emitted for one entry.
C10_Witness ==
    /\ TestsReturned
    /\ \A K \in Kinds : \E j \in 1..Len(ret[1].text.cases) :
            ret[1].text.cases[j].title = Title(K)

----------------------------------------------------------------------------
(* Specification SpecTls: generate_tls_test on every TLS specification *)

TlsEntries ==
    {[binary_file |-> File1, description |-> <<"d">>,
      data_directories |->
        [K \in Kinds |->
            IF K = "TLS"
            THEN <<[present |-> p, callback_count |-> n, has_callbacks |-> h,
                    address_of_index_nonzero |-> ai, address_of_callbacks_nonzero |-> ac]>>
            ELSE <<>>]] :
        p \in OptBool, n \in {<<>>, <<0>>, <<2>>}, h \in OptBool,
        ai \in OptBool, ac \in OptBool}
    \cup {Entry(File1, <<"d">>, "TLS", "absent", "absent")}

InitTls ==
    /\ InitIdle
    /\ arg \in TlsEntries
    /\ ret = <<>>

CallTls ==
    /\ ret = <<>>
    /\ ret' = <<generate_tls_test(arg)>>
    /\ UNCHANGED <<arg, mainVars>>

RecallTls ==
    /\ ret # <<>>
    /\ ret' = <<generate_tls_test(arg)>>
    /\ UNCHANGED <<arg, mainVars>>

NextTls == CallTls \/ RecallTls

SpecTls == InitTls /\ [][NextTls]_vars

TlsSpecOf(entry) == entry.data_directories["TLS"][1]

HasStep(steps, name) == \E i \in 1..Len(steps) : steps[i].step = name

\* generate_tls_test has returned for an entry whose TLS spec has present = true.
TlsEmitted == ret # <<>> /\ PresentTrue(arg, "TLS")

\* C9 as stated: each sub-assertion is emitted iff its field is present, and a
\* present has_callbacks is asserted with its value (false as "has no callbacks").
C9_TlsAssertionsFollowPresence ==
    TlsEmitted =>
        LET t == TlsSpecOf(arg)
            steps == ret[1][1].steps
        IN  /\ Len(ret[1]) = 1
            /\ HasStep(steps, "callback_count") <=> Has(t.callback_count)
            /\ Has(t.callback_count) =>
                 \E i \in 1..Len(steps) : steps[i] = St("callback_count", "", t.callback_count[1])
            /\ (Has(t.has_callbacks) /\ t.has_callbacks[1]) => HasStep(steps, "has_callbacks")
            /\ (Has(t.has_callbacks) /\ ~t.has_callbacks[1]) => HasStep(steps, "has_callbacks_false")
            /\ HasStep(steps, "address_of_index_nonzero") <=> Has(t.address_of_index_nonzero)
            /\ HasStep(steps, "address_of_callbacks_nonzero")
                 <=> Has(t.address_of_callbacks_nonzero)

\* C9 amended: the callback-count assertion is emitted iff callback_count is
\* present, with the specified value (0 included); the has-callbacks assertion
\* (that has_callbacks() is true) and the two address assertions are emitted
\* iff the field is present and true; a field that is present and false, like
\* an absent one, yields no assertion.
C9_TlsAssertionsFollowTruth ==
    TlsEmitted =>
        LET t == TlsSpecOf(arg)
            steps == ret[1][1].steps
        IN  /\ Len(ret[1]) = 1
            /\ HasStep(steps, "callback_count") <=> Has(t.callback_count)
            /\ Has(t.callback_count) =>
                 \E i \in 1..Len(steps) : steps[i] = St("callback_count", "", t.callback_count[1])
            /\ HasStep(steps, "has_callbacks") <=> (t.has_callbacks = <<TRUE>>)
            /\ ~HasStep(steps, "has_callbacks_false")
            /\ HasStep(steps, "address_of_index_nonzero")
                 <=> (t.address_of_index_nonzero = <<TRUE>>)
            /\ HasStep(steps, "address_of_callbacks_nonzero")
                 <=> (t.address_of_callbacks_nonzero = <<TRUE>>)

\* The case of the spec's scenario 2 has been generated: callback_count = 0,
\* has_callbacks = false, no address fields.
C9_Witness ==
    /\ TlsEmitted
    /\ TlsSpecOf(arg) = TlsDir(<<TRUE>>)
    /\ ret[1][1].steps = TlsHead \o <<St("callback_count", "", 0)>>

----------------------------------------------------------------------------
(* Specification Spec: a run of main() *)

Files == {File1, File2, File3}

FileData(f) == CASE f = File1 -> <<77, 90>>
                 [] f = File2 -> <<>>
                 [] f = File3 -> <<255>>

\* What read_bytes() finds: the bytes, no such file, or another OSError
\* (permission denied, the path is a directory, an I/O error).
FileStates(f) ==
    {[state |-> "ok", data |-> FileData(f)],
     [state |-> "FileNotFoundError", data |-> <<>>],
     [state |-> "PermissionError", data |-> <<>>]}

Corpora == {c \in [Files -> UNION {FileStates(f) : f \in Files}] :
                \A f \in Files : c[f] \in FileStates(f)}

MainEntries ==
    UNION {{Entry(f, <<"d">>, "IMPORT", "true", "absent"),
            Entry(f, <<"d">>, "TLS", "true", "absent"),
            Entry(f, <<>>, "DEBUG", "true", "absent")} : f \in Files}

SpecDocs ==
    {[status |-> "ok", corpus_exists |-> e, test_files |-> tf] :
        e \in BOOLEAN, tf \in SeqsUpTo(MainEntries, MaxEntries)}
    \cup {[status |-> st, corpus_exists |-> TRUE, test_files |-> <<>>] :
            st \in {"missing", "malformed"}}

Init ==
    /\ pc = "start" /\ error = ""
    /\ spec_doc \in SpecDocs
    /\ corpus \in Corpora
    /\ data_code = <<>> /\ test_code = <<>>
    /\ data_out = <<>> /\ test_out = <<>>
    /\ warnings = <<>>
    /\ arg = <<>> /\ ret = <<>>

\* An uncaught exception or sys.exit(1): the run ends here.
Abort(e) == pc' = "aborted" /\ error' = e

\* data_output_dir.mkdir(parents=True, exist_ok=True)
Mkdir ==
    /\ pc = "start"
    /\ \/ pc' = "load" /\ UNCHANGED error
       \/ Abort("OSError")
    /\ UNCHANGED <<spec_doc, corpus, data_code, test_code, data_out, test_out,
                   warnings, arg, ret>>

\* spec = load_spec(spec_path)
LoadSpec ==
    /\ pc = "load"
    /\ IF spec_doc.status = "missing" THEN Abort("FileNotFoundError")
       ELSE IF spec_doc.status = "malformed" THEN Abort("JSONDecodeError")
       ELSE pc' = "corpus" /\ UNCHANGED error
    /\ UNCHANGED <<spec_doc, corpus, data_code, test_code, data_out, test_out,
                   warnings, arg, ret>>

\* if not corpus_path.exists(): sys.exit(1)
CheckCorpus ==
    /\ pc = "corpus"
    /\ IF spec_doc.corpus_exists THEN pc' = "gen_data" /\ UNCHANGED error
       ELSE Abort("SystemExit")
    /\ UNCHANGED <<spec_doc, corpus, data_code, test_code, data_out, test_out,
                   warnings, arg, ret>>

\* The warnings printed before generate_data_file ends with an exception.
WarningsBeforeError(test_files, files) ==
    LET names == EmbedOrder(test_files)
        bad   == {i \in 1..Len(names) :
                    SanitizeRaises(names[i]) \/ EmbedRaises(files[names[i]])}
        first == CHOOSE i \in bad : \A j \in bad : i <= j
    IN  Flatten([i \in 1..(first - 1) |-> EmbedWarning(files[names[i]], names[i])])

\* data_code = generate_data_file(spec, corpus_path)
GenerateData ==
    /\ pc = "gen_data"
    /\ LET e == GenerateDataError(spec_doc.test_files, corpus)
       IN  IF e # ""
           THEN /\ Abort(e)
                /\ warnings' = WarningsBeforeError(spec_doc.test_files, corpus)
                /\ UNCHANGED data_code
           ELSE /\ pc' = "write_data" /\ UNCHANGED error
                /\ data_code' = <<generate_data_file(spec_doc.test_files, corpus)>>
                /\ warnings' = DataWarnings(spec_doc.test_files, corpus)
    /\ UNCHANGED <<spec_doc, corpus, test_code, data_out, test_out, arg, ret>>

\* with open(data_output_path, 'w') as f: f.write(data_code)
WriteData ==
    /\ pc = "write_data"
    /\ \/ pc' = "gen_tests" /\ data_out' = data_code /\ UNCHANGED error
       \/ Abort("OSError") /\ UNCHANGED data_out
    /\ UNCHANGED <<spec_doc, corpus, data_code, test_code, test_out, warnings, arg, ret>>

\* test_code = generate_tests(spec)
GenerateTests ==
    /\ pc = "gen_tests"
    /\ LET e == GenerateTestsError(spec_doc.test_files)
       IN  IF e # ""
           THEN Abort(e) /\ UNCHANGED test_code
           ELSE /\ pc' = "write_tests" /\ UNCHANGED error
                /\ test_code' = <<generate_tests(spec_doc.test_files)>>
    /\ UNCHANGED <<spec_doc, corpus, data_code, data_out, test_out, warnings, arg, ret>>

\* with open(test_output_path, 'w') as f: f.write(test_code)
WriteTests ==
    /\ pc = "write_tests"
    /\ \/ pc' = "done" /\ test_out' = test_code /\ UNCHANGED error
       \/ Abort("OSError") /\ UNCHANGED test_out
    /\ UNCHANGED <<spec_doc, corpus, data_code, test_code, data_out, warnings, arg, ret>>

Next ==
    \/ Mkdir
    \/ LoadSpec
    \/ CheckCorpus
    \/ GenerateData
    \/ WriteData
    \/ GenerateTests
    \/ WriteTests

Spec == Init /\ [][Next]_vars

----------------------------------------------------------------------------
(* Properties of a run of main() *)

\* C1: a run that aborts has persisted neither artifact.
C1_AbortWritesNothing ==
    pc = "aborted" => (data_out = <<>> /\ test_out = <<>>)

\* The identifiers the test-case artifact forward-declares or references.
UsedIds(text) ==
    {text.forward_decls[i].var : i \in 1..Len(text.forward_decls)}
    \cup {text.cases[j].var : j \in 1..Len(text.cases)}

\* The declaration blocks of the asset artifact that define identifier id.
BlocksDefining(text, id) == {i \in 1..Len(text.blocks) : text.blocks[i].var = id}

\* C2: in a completed run every identifier the test-case artifact declares or
\* references is defined by exactly one block of the asset artifact.
C2_ReferencesDefinedOnce ==
    pc = "done" =>
        \A id \in UsedIds(test_out[1]) :
            Cardinality(BlocksDefining(data_out[1], id)) = 1

\* The declaration blocks emitted for filename f (named in the block's
\* "Embedded:" comment).
BlocksFor(text, f) == {i \in 1..Len(text.blocks) : text.blocks[i].name = PathName(f)}

\* C3 as stated: every referenced filename has exactly one declaration block.
C3_OneBlockPerFile ==
    data_code # <<>> =>
        \A f \in BinaryFiles(spec_doc.test_files) :
            Cardinality(BlocksFor(data_code[1], f)) = 1

\* C3 amended: every referenced filename whose file was read has exactly one
\* declaration block, however many entries reference it; a referenced file
\* that was not found has none.
C3_OneBlockPerReadFile ==
    data_code # <<>> =>
        \A f \in BinaryFiles(spec_doc.test_files) :
            Cardinality(BlocksFor(data_code[1], f))
                = (IF corpus[f].state = "ok" THEN 1 ELSE 0)

\* generate_data_file has returned for a specification in which two entries
\* with different directory kinds reference the same readable file.
C3_Witness ==
    /\ data_code # <<>>
    /\ \E i, j \in 1..Len(spec_doc.test_files) :
        /\ i # j
        /\ spec_doc.test_files[i].binary_file = spec_doc.test_files[j].binary_file
        /\ PresentTrue(spec_doc.test_files[i], "IMPORT")
        /\ PresentTrue(spec_doc.test_files[j], "TLS")
        /\ corpus[spec_doc.test_files[i].binary_file].state = "ok"
        /\ Cardinality(BlocksFor(data_code[1], spec_doc.test_files[i].binary_file)) = 1

\* C4: no identifier is declared twice: the asset artifact holds at most one
\* block per identifier and the test-case artifact at most one pair of forward
\* declarations per identifier.
C4_NoIdentifierTwice ==
    /\ data_code # <<>> =>
        \A i, j \in 1..Len(data_code[1].blocks) :
            data_code[1].blocks[i].var = data_code[1].blocks[j].var => i = j
    /\ test_code # <<>> =>
        \A i, j \in 1..Len(test_code[1].forward_decls) :
            test_code[1].forward_decls[i] = test_code[1].forward_decls[j] => i = j

\* C8: an unreadable corpus file never ends the run: whatever the reason the
\* file cannot be read, generate_data_file goes on to the remaining files.
C8_ReadFailureNonFatal ==
    (pc = "aborted" /\ \E f \in BinaryFiles(spec_doc.test_files) : corpus[f].state # "ok")
        => error \notin {"FileNotFoundError", "PermissionError"}

====
